---- MODULE Spec2Model ----
(***************************************************************************)
(* FeatureFormatter (featureFormatter.py): an indentation-tracking text    *)
(* assembler for OpenType feature files.  The formatter object is          *)
(* modelled field by field; Python strings are TLA+ strings, Python lists  *)
(* are sequences, an optional value (None or a string) is <<>> or <<s>>.   *)
(***************************************************************************)
EXTENDS Integers, Sequences, FiniteSets, TLC

VARIABLES
    indentLevel,        \* self.indentLevel
    lines,              \* self.lines
    featureNames,       \* self.featureNames
    structure,          \* self.structure
    currentFeature,     \* self.currentFeature   (<<>> is None)
    currentLookup,      \* self.currentLookup
    currentTableName,   \* self.currentTableName
    includeTimeStamp,   \* self.includeTimeStamp (fixed by the constructor)
    files,              \* the disk: path -> text
    raised,             \* exception that ended the last call ("" when it returned)
    ret,                \* value returned by the last call (<<>> is None)
    pre,                \* the formatter's fields as they were before the last call
    trace,              \* the calls made so far, in order
    budget              \* calls the client still makes

vars == <<indentLevel, lines, featureNames, structure, currentFeature,
          currentLookup, currentTableName, includeTimeStamp, files,
          raised, ret, pre, trace, budget>>

-----------------------------------------------------------------------------
(* Bounds of the model. *)

\* calls made on one formatter, per specification
MaxCalls == 2
MaxBlockCalls == 4
MaxSaveCalls == 3
MaxGroupCalls == 2
\* glyph names handed to one addGroup call
MaxGroupLen == 7

-----------------------------------------------------------------------------
(* Python values and string primitives. *)

None == <<>>
Some(s) == <<s>>

\* "%s" % v for an optional string
PyStr(v) == IF v = None THEN "None" ELSE v[1]

\* truth value of an optional string: None and "" are false
Truthy(v) == v /= None /\ v[1] /= ""

Max(a, b) == IF a >= b THEN a ELSE b

RECURSIVE Repeat(_, _)
\* n * s  (a count below 1 gives the empty string)
Repeat(s, n) == IF n <= 0 THEN "" ELSE s \o Repeat(s, n - 1)

RECURSIVE Join(_, _)
\* sep.join(seq)
Join(sep, seq) ==
    IF seq = <<>> THEN ""
    ELSE IF Len(seq) = 1 THEN seq[1]
    ELSE seq[1] \o sep \o Join(sep, Tail(seq))

\* s.find(c) != -1 for a one-character c
Contains(s, c) == \E i \in 1..Len(s) : SubSeq(s, i, i) = c

StartsWith(s, p) == Len(p) <= Len(s) /\ SubSeq(s, 1, Len(p)) = p

Digits == "0123456789"

RECURSIVE NatStr(_)
NatStr(n) == IF n < 10 THEN SubSeq(Digits, n + 1, n + 1)
             ELSE NatStr(n \div 10) \o SubSeq(Digits, (n % 10) + 1, (n % 10) + 1)

\* "%d" % n
IntStr(n) == IF n < 0 THEN "-" \o NatStr(0 - n) ELSE NatStr(n)

\* "%<w>d" % n : right-aligned in a field of w characters
PadInt(n, w) == Repeat(" ", w - Len(IntStr(n))) \o IntStr(n)

\* the characters glyph, class and feature names are written with, in code-point order
CharOrder == "#.0123456789@ABCDEFGHIJKLMNOPQRSTUVWXYZ_abcdefghijklmnopqrstuvwxyz"

\* the place of each character in that order
OrdOf == [c \in {SubSeq(CharOrder, i, i) : i \in 1..Len(CharOrder)} |->
             CHOOSE i \in 1..Len(CharOrder) : SubSeq(CharOrder, i, i) = c]

RECURSIVE StrLessFrom(_, _, _)
\* a[i:] < b[i:], given that a[:i] = b[:i]
StrLessFrom(a, b, i) ==
    IF i > Len(b) THEN FALSE
    ELSE IF i > Len(a) THEN TRUE
    ELSE IF SubSeq(a, i, i) /= SubSeq(b, i, i)
         THEN OrdOf[SubSeq(a, i, i)] < OrdOf[SubSeq(b, i, i)]
         ELSE StrLessFrom(a, b, i + 1)

\* a < b for Python strings
StrLess(a, b) == StrLessFrom(a, b, 1)

RECURSIVE Insert(_, _)
\* x put after the elements of the sorted list that are not greater than it
Insert(x, sorted) ==
    IF sorted = <<>> THEN <<x>>
    ELSE IF StrLess(x, sorted[1]) THEN <<x>> \o sorted
    ELSE <<sorted[1]>> \o Insert(x, Tail(sorted))

RECURSIVE SortedUpTo(_, _)
\* the first n elements of seq, sorted
SortedUpTo(seq, n) ==
    IF n = 0 THEN <<>> ELSE Insert(seq[n], SortedUpTo(seq, n - 1))

\* list.sort() on a list of strings
Sorted(seq) == SortedUpTo(seq, Len(seq))

\* os.path.join(a, b) for a relative b
PathJoin(a, b) == IF a = "" THEN b
                  ELSE IF SubSeq(a, Len(a), Len(a)) = "/" THEN a \o b
                  ELSE a \o "/" \o b

-----------------------------------------------------------------------------
(* Constructor arguments that stay fixed. *)

dirName == "out"
featurePrefix == "AT"
indentSpace == "    "

-----------------------------------------------------------------------------
(* The formatter object as a value, and its methods as functions of it.    *)
(* exc is the exception a method ended with ("" when it returned).         *)

Self == [indentLevel      |-> indentLevel,
         lines            |-> lines,
         featureNames     |-> featureNames,
         structure        |-> structure,
         currentFeature   |-> currentFeature,
         currentLookup    |-> currentLookup,
         currentTableName |-> currentTableName,
         exc              |-> ""]

\* FeatureFormatter.__init__ up to the indent(startIndent) call
Fresh == [indentLevel      |-> 0,
          lines            |-> <<>>,
          featureNames     |-> <<>>,
          structure        |-> <<>>,
          currentFeature   |-> None,
          currentLookup    |-> None,
          currentTableName |-> None,
          exc              |-> ""]

Raise(s, e) == [s EXCEPT !.exc = e]

indent(s, steps) == [s EXCEPT !.indentLevel = @ + steps]

\* dedent without the max(..., 0) of its second statement
dedentNoClamp(s, steps) == [s EXCEPT !.indentLevel = @ - steps]

dedent(s, steps) == [s EXCEPT !.indentLevel = Max(@ - steps, 0)]

\* the whitespace an appended line or structure entry starts with
Prefix(level) == Repeat(indentSpace, level)

addStructure(s, tag) ==
    [s EXCEPT !.structure = Append(@, Prefix(s.indentLevel) \o tag)]

addLine(s, args) ==
    [s EXCEPT !.lines = Append(@, Prefix(s.indentLevel) \o Join(" ", args))]

RECURSIVE comment(_, _)
comment(s, args) ==
    IF args = <<>> THEN s
    ELSE comment(addLine(s, <<"# " \o args[1]>>), Tail(args))

RECURSIVE commentIndented(_, _)
\* the loop of title: for a in args: self.comment(self.indentSpace+a)
commentIndented(s, args) ==
    IF args = <<>> THEN s
    ELSE commentIndented(comment(s, <<indentSpace \o args[1]>>), Tail(args))

title(s, args) ==
    LET s1 == addStructure(s, "'" \o Join(" ", args) \o "'")
        s2 == addLine(addLine(s1, <<>>), <<>>)
        s3 == comment(s2, <<Repeat("-", 50)>>)
        s4 == commentIndented(s3, args)
    IN  comment(s4, <<Repeat("-", 50)>>)

\* lastLineIsComment looking for the marker at the start of the line only
lastLineStartsWithHash(s) == StartsWith(s.lines[Len(s.lines)], "#")

\* defined only for a non-empty line buffer: lines[-1] raises IndexError otherwise
lastLineIsComment(s) == Contains(s.lines[Len(s.lines)], "#")

\* addLastLine putting the text in the place of the last line
addLastLineOverwrites(s, text) ==
    IF s.lines = <<>> THEN Raise(s, "IndexError")
    ELSE IF ~lastLineIsComment(s)
         THEN [s EXCEPT !.lines[Len(s.lines)] = text]
         ELSE addLine(s, <<text>>)

addLastLine(s, text) ==
    IF s.lines = <<>> THEN Raise(s, "IndexError")
    ELSE IF ~lastLineIsComment(s)
         THEN [s EXCEPT !.lines[Len(s.lines)] = @ \o text]
         ELSE addLine(s, <<text>>)

startFeature(s, name) ==
    LET s1 == addStructure(s, "feature " \o name \o " {")
        s2 == addLine(s1, <<"feature " \o name \o " {">>)
        s3 == [s2 EXCEPT !.currentFeature = Some(name),
                         !.featureNames = Append(@, name)]
    IN  indent(s3, 1)

\* endFeature emitting its closing line before it dedents
endFeatureLineFirst(s) ==
    LET s1 == addLine(s, <<"} " \o PyStr(s.currentFeature) \o ";">>)
        s2 == dedent(s1, 1)
        s3 == addStructure(s2, "} " \o PyStr(s2.currentFeature) \o ";")
    IN  [s3 EXCEPT !.currentFeature = None]

endFeature(s) ==
    LET s1 == dedent(s, 1)
        s2 == addLine(s1, <<"} " \o PyStr(s1.currentFeature) \o ";">>)
        s3 == addStructure(s2, "} " \o PyStr(s2.currentFeature) \o ";")
    IN  [s3 EXCEPT !.currentFeature = None]

\* startLookup without its addStructure call
startLookupNoStructure(s, name) ==
    LET s2 == addLine(s, <<"lookup " \o name \o " {">>)
        s3 == [s2 EXCEPT !.currentLookup = Some(name)]
    IN  indent(s3, 1)

startLookup(s, name) ==
    LET s1 == addStructure(s, "lookup " \o name)
        s2 == addLine(s1, <<"lookup " \o name \o " {">>)
        s3 == [s2 EXCEPT !.currentLookup = Some(name)]
    IN  indent(s3, 1)

\* endLookup clearing the name of the feature as well
endLookupClearsFeature(s) ==
    LET s1 == dedent(s, 1)
        s2 == addLine(s1, <<"} " \o PyStr(s1.currentLookup) \o ";">>)
    IN  [s2 EXCEPT !.currentLookup = None, !.currentFeature = None]

endLookup(s) ==
    LET s1 == dedent(s, 1)
        s2 == addLine(s1, <<"} " \o PyStr(s1.currentLookup) \o ";">>)
    IN  [s2 EXCEPT !.currentLookup = None]

startTable(s, name) ==
    LET s1 == addLine(s, <<"table " \o name \o " {">>)
        s2 == indent(s1, 1)
    IN  [s2 EXCEPT !.currentTableName = Some(name)]

endTable(s) ==
    LET s1 == dedent(s, 1)
        s2 == addLine(s1, <<"} " \o PyStr(s1.currentTableName) \o ";">>)
    IN  [s2 EXCEPT !.currentTableName = None]

\* _addSmallGroup writing the class name as given, a leading "@" not removed
addSmallGroupKeepAt(s, glyphNames, groupName) ==
    LET s1 == IF Truthy(groupName)
              THEN addLine(s, <<"@" \o groupName[1] \o " = [ "
                                \o Join(" ", glyphNames) \o " ]">>)
              ELSE addLine(s, <<"[ " \o Join(" ", glyphNames) \o " ]">>)
    IN  IF Truthy(groupName) THEN addLastLine(s1, ";") ELSE s1

\* _addSmallGroup: groupName is None or Some(string)
addSmallGroup(s, glyphNames, groupName) ==
    LET n  == IF SubSeq(groupName[1], 1, 1) = "@"
              THEN SubSeq(groupName[1], 2, Len(groupName[1]))
              ELSE groupName[1]
        s1 == IF Truthy(groupName)
              THEN addLine(s, <<"@" \o n \o " = [ " \o Join(" ", glyphNames) \o " ]">>)
              ELSE addLine(s, <<"[ " \o Join(" ", glyphNames) \o " ]">>)
    IN  IF Truthy(groupName) THEN addLastLine(s1, ";") ELSE s1

RECURSIVE WrapNamesDropping(_, _, _, _, _, _)
\* the loop of addGroup losing the name at hand when it flushes a line
WrapNamesDropping(parts, c, nl, line, out, lineLength) ==
    IF parts = <<>> THEN [out |-> out, line |-> line]
    ELSE IF c > lineLength
         THEN WrapNamesDropping(Tail(parts), 0, nl + 1, <<>>,
                        IF (nl + 1) % 10 = 0
                        THEN out \o <<Join(" ", line), "# line " \o IntStr(nl + 1)>>
                        ELSE Append(out, Join(" ", line)),
                        lineLength)
         ELSE WrapNamesDropping(Tail(parts), c + Len(parts[1]) + 1, nl,
                        Append(line, parts[1]), out, lineLength)

RECURSIVE WrapNames(_, _, _, _, _, _)
\* the loop "for n in parts" of addGroup: c is the accumulated length, nl the
\* lines flushed so far, line the names of the body line being filled, out the
\* texts handed to addLine so far (a flushed line, or the comment "# line N")
WrapNames(parts, c, nl, line, out, lineLength) ==
    IF parts = <<>> THEN [out |-> out, line |-> line]
    ELSE IF c > lineLength
         THEN WrapNames(Tail(parts), 0, nl + 1, <<parts[1]>>,
                        IF (nl + 1) % 10 = 0
                        THEN out \o <<Join(" ", line), "# line " \o IntStr(nl + 1)>>
                        ELSE Append(out, Join(" ", line)),
                        lineLength)
         ELSE WrapNames(Tail(parts), c + Len(parts[1]) + 1, nl,
                        Append(line, parts[1]), out, lineLength)

\* addLine(text) for each text in turn, the indent level staying as it is
addLines(s, texts) ==
    [s EXCEPT !.lines = @ \o [i \in 1..Len(texts) |-> Prefix(s.indentLevel) \o texts[i]]]

addGroup(s, glyphNames, groupName, lineLength, sort) ==
    IF Len(glyphNames) < 5 THEN addSmallGroup(s, glyphNames, groupName)
    ELSE
    LET n  == IF SubSeq(groupName[1], 1, 1) = "@"
              THEN SubSeq(groupName[1], 2, Len(groupName[1]))
              ELSE groupName[1]
        s1 == IF Truthy(groupName)
              THEN addLine(s, <<"@" \o n \o " = [">>)
              ELSE addLine(s, <<"[">>)
        s2 == indent(s1, 1)
        s3 == comment(s2, <<"total " \o IntStr(Len(glyphNames)) \o " names">>)
        parts == IF sort THEN Sorted(glyphNames) ELSE glyphNames
        w  == WrapNames(parts, 0, 0, <<>>, <<>>, lineLength)
        s4 == addLines(s3, IF w.line /= <<>>
                           THEN Append(w.out, Join(" ", w.line))
                           ELSE w.out)
        s5 == dedent(s4, 1)
    IN  IF Truthy(groupName) THEN addLine(s5, <<"];">>) ELSE addLine(s5, <<"]">>)

languageSystem(s, name, code) ==
    LET nm == IF name = None THEN "DFLT" ELSE name[1]
        cd == IF code = None THEN "dflt" ELSE code[1]
    IN  addLine(s, <<"languagesystem " \o nm \o " " \o cd \o ";">>)

lookupFlag(s, flags) == addLine(s, <<"lookupflag " \o Join(" ", flags) \o ";">>)

\* include with the test of os.path.exists inverted
includeInverted(s, fileName, disk) ==
    LET path == PathJoin(dirName, fileName)
        s1   == addLine(s, <<"include(" \o fileName \o ");">>)
    IN  IF path \in disk
        THEN comment(s1, <<"Note: missing file at", path>>)
        ELSE s1

\* disk is the set of paths that exist (os.path.exists)
include(s, fileName, disk) ==
    LET path == PathJoin(dirName, fileName)
        s1   == addLine(s, <<"include(" \o fileName \o ");">>)
    IN  IF path \notin disk
        THEN comment(s1, <<"Note: missing file at", path>>)
        ELSE s1

\* pos is None or Some(<<x, y>>)
anchor(pos) ==
    IF pos = None THEN "<anchor NULL>"
    ELSE "<anchor " \o PadInt(pos[1][1], 5) \o " " \o PadInt(pos[1][2], 5) \o ">"

markClass(s, glyphName, pos, className) ==
    addLine(s, <<"markClass " \o glyphName \o " " \o anchor(pos) \o " "
                 \o className \o ";">>)

positionMark(s, glyphName, pos, className) ==
    addLine(s, <<"position mark " \o glyphName \o " " \o anchor(pos) \o " mark "
                 \o className \o ";">>)

startLigatureMarks(s, ligatureName) ==
    indent(addLine(s, <<"position ligature " \o ligatureName>>), 1)

\* the body reads ligatureName, which is neither a parameter nor a global
positionBaseMark(s, name, pos, className) == Raise(s, "NameError")

startBaseMarks(s, ligatureName, enable) ==
    LET prefix == IF ~enable THEN "#" ELSE ""
    IN  indent(addLine(s, <<prefix \o "position base " \o ligatureName>>), 1)

anchorBasePosition(s, pos, className, enable) ==
    LET prefix == IF ~enable THEN "#" ELSE ""
    IN  addLine(s, <<prefix \o anchor(pos) \o " mark " \o className>>)

kern(s, firstName, secondName, value) ==
    addLine(s, <<"pos " \o firstName \o " " \o secondName \o " <"
                 \o PadInt(value, 4) \o " 0 " \o PadInt(value, 4) \o " 0>;">>)

endMarks(s) ==
    LET s1 == dedent(s, 1)
    IN  IF s1.lines = <<>> THEN Raise(s1, "IndexError")
        ELSE IF ~lastLineIsComment(s1)
             THEN [s1 EXCEPT !.lines[Len(s1.lines)] = @ \o ";"]
             ELSE addLine(s1, <<";">>)

ligatureFlagComponent(s) ==
    indent(addLine(dedent(s, 1), <<"ligComponent">>), 1)

\* strftime("# timestamp %a, %d %b %Y %H:%M:%S", localtime()) at clock reading t
TimeStamp(t) == "# timestamp T" \o IntStr(t)

RECURSIVE StructureComments(_)
\* "# %s%s" % (self.indentSpace, line) for each line of the structure
StructureComments(st) ==
    IF st = <<>> THEN <<>>
    ELSE <<"# " \o indentSpace \o st[1]>> \o StructureComments(Tail(st))

\* dump() at clock reading t, timestamp being self.includeTimeStamp
dump(s, timestamp, t) ==
    LET text1 == <<"# file structure:">> \o StructureComments(s.structure)
        text2 == IF timestamp THEN text1 \o <<"", TimeStamp(t)>> ELSE text1
    IN  Join("\n", text2 \o s.lines)

\* the title of save() with "if optionalFileTitle is None" for "if not optionalFileTitle"
saveTitleGiven(s, optionalFileTitle) ==
    IF optionalFileTitle = None THEN Join("_", s.featureNames)
    ELSE optionalFileTitle[1]

\* the title save() puts in the file name
saveTitle(s, optionalFileTitle) ==
    IF ~Truthy(optionalFileTitle) THEN Join("_", s.featureNames)
    ELSE optionalFileTitle[1]

\* the path save() opens
savePath(s, optionalFileTitle) ==
    PathJoin(dirName, "feature_" \o featurePrefix \o "_"
                      \o saveTitle(s, optionalFileTitle) \o ".fea")

\* f = open(feaPath, 'w'); f.write(self.dump()); f.close()
WriteFile(disk, path, text) ==
    [p \in DOMAIN disk \cup {path} |-> IF p = path THEN text ELSE disk[p]]

-----------------------------------------------------------------------------
(* Arguments the calls are made with. *)

Names == {"liga", "kern"}
StartIndents == {0, 1}
Steps == {0, 1, 2}
Clock == {0, 1}
LineArgs == {<<>>, <<"sub", "a", "by", "b;">>, <<"#", "off">>}
CommentArgs == {<<>>, <<"note">>, <<"one", "two">>}
TitleArgs == {<<"mark", "to", "base">>}
LastLineTexts == {";"}
FewNames == <<"a", "b", "c">>
FiveNames == <<"e", "d", "c", "b", "a">>
GroupNames == {None, Some("G")}
FileNames == {"present.fea", "missing.fea", "feature_AT_my.fea"}
FileTitles == {None, Some(""), Some("my")}
Positions == {None, Some(<<329, -253>>)}

\* the disk before the formatter writes anything
InitialDisk == [p \in {PathJoin(dirName, "present.fea")} |-> ""]

-----------------------------------------------------------------------------
(* State after construction, and one action per method call. *)

TypeOK ==
    /\ indentLevel \in Int
    /\ includeTimeStamp \in BOOLEAN
    /\ raised \in {"", "IndexError", "NameError", "IOError"}
    /\ budget \in Nat

\* FeatureFormatter(dirName, startIndent=k, includeTimeStamp=ts), used for n calls
Construct(k, ts, n) ==
    /\ indentLevel = indent(Fresh, k).indentLevel
    /\ lines = <<>>
    /\ featureNames = <<>>
    /\ structure = <<>>
    /\ currentFeature = None
    /\ currentLookup = None
    /\ currentTableName = None
    /\ includeTimeStamp = ts
    /\ files = InitialDisk
    /\ raised = ""
    /\ ret = None
    /\ pre = Fresh
    /\ trace = <<>>
    /\ budget = n

Init == \E k \in StartIndents, ts \in BOOLEAN : Construct(k, ts, MaxCalls)

\* a call of method op with args that leaves the object as s2, the disk as
\* disk2, and returns rv (or raises s2.exc)
Call(op, args, s2, disk2, rv) ==
    \E r \in {s2} :
    /\ budget' = budget - 1
    /\ indentLevel' = r.indentLevel
    /\ lines' = r.lines
    /\ featureNames' = r.featureNames
    /\ structure' = r.structure
    /\ currentFeature' = r.currentFeature
    /\ currentLookup' = r.currentLookup
    /\ currentTableName' = r.currentTableName
    /\ files' = disk2
    /\ raised' = r.exc
    /\ ret' = IF r.exc = "" THEN rv ELSE None
    /\ pre' = Self
    /\ trace' = Append(trace, [op |-> op, args |-> args,
                                level0 |-> indentLevel, nlines0 |-> Len(lines)])
    /\ UNCHANGED includeTimeStamp

Indent(k) ==
    /\ budget > 0
    /\ Call("indent", <<k>>, indent(Self, k), files, None)

Dedent(k) ==
    /\ budget > 0
    /\ Call("dedent", <<k>>, dedent(Self, k), files, None)

StartFeature(n) ==
    /\ budget > 0
    /\ Call("startFeature", <<n>>, startFeature(Self, n), files, None)

EndFeature ==
    /\ budget > 0
    /\ Call("endFeature", <<>>, endFeature(Self), files, None)

StartLookup(n) ==
    /\ budget > 0
    /\ Call("startLookup", <<n>>, startLookup(Self, n), files, None)

EndLookup ==
    /\ budget > 0
    /\ Call("endLookup", <<>>, endLookup(Self), files, None)

StartTable(n) ==
    /\ budget > 0
    /\ Call("startTable", <<n>>, startTable(Self, n), files, None)

EndTable ==
    /\ budget > 0
    /\ Call("endTable", <<>>, endTable(Self), files, None)

AddLine(a) ==
    /\ budget > 0
    /\ Call("addLine", a, addLine(Self, a), files, None)

Comment(a) ==
    /\ budget > 0
    /\ Call("comment", a, comment(Self, a), files, None)

Title(a) ==
    /\ budget > 0
    /\ Call("title", a, title(Self, a), files, None)

AddLastLine(x) ==
    /\ budget > 0
    /\ Call("addLastLine", <<x>>, addLastLine(Self, x), files, None)

AddGroup(g, gn, ll, srt) ==
    /\ budget > 0
    /\ Call("addGroup", <<g, gn, ll, srt>>, addGroup(Self, g, gn, ll, srt), files, None)

LanguageSystem(n, c) ==
    /\ budget > 0
    /\ Call("languageSystem", <<n, c>>, languageSystem(Self, n, c), files, None)

LookupFlag(f) ==
    /\ budget > 0
    /\ Call("lookupFlag", f, lookupFlag(Self, f), files, None)

Include(f) ==
    /\ budget > 0
    /\ Call("include", <<f>>, include(Self, f, DOMAIN files), files, None)

MarkClass(g, pos, c) ==
    /\ budget > 0
    /\ Call("markClass", <<g, pos, c>>, markClass(Self, g, pos, c), files, None)

PositionMark(g, pos, c) ==
    /\ budget > 0
    /\ Call("positionMark", <<g, pos, c>>, positionMark(Self, g, pos, c), files, None)

StartLigatureMarks(l) ==
    /\ budget > 0
    /\ Call("startLigatureMarks", <<l>>, startLigatureMarks(Self, l), files, None)

PositionBaseMark(n, pos, c) ==
    /\ budget > 0
    /\ Call("positionBaseMark", <<n, pos, c>>, positionBaseMark(Self, n, pos, c), files, None)

StartBaseMarks(l, en) ==
    /\ budget > 0
    /\ Call("startBaseMarks", <<l, en>>, startBaseMarks(Self, l, en), files, None)

AnchorBasePosition(pos, c, en) ==
    /\ budget > 0
    /\ Call("anchorBasePosition", <<pos, c, en>>, anchorBasePosition(Self, pos, c, en),
       files, None)

Kern(a, b, v) ==
    /\ budget > 0
    /\ Call("kern", <<a, b, v>>, kern(Self, a, b, v), files, None)

EndMarks ==
    /\ budget > 0
    /\ Call("endMarks", <<>>, endMarks(Self), files, None)

LigatureFlagComponent ==
    /\ budget > 0
    /\ Call("ligatureFlagComponent", <<>>, ligatureFlagComponent(Self), files, None)

\* save(title) at clock reading t; open() fails when the directory is not writable
Save(ttl, t, writable) ==
    /\ budget > 0
    /\ IF writable
       THEN Call("save", <<ttl, t, writable>>, Self,
                 WriteFile(files, savePath(Self, ttl), dump(Self, includeTimeStamp, t)),
                 Some(savePath(Self, ttl)))
       ELSE Call("save", <<ttl, t, writable>>, Raise(Self, "IOError"), files, None)

Dump(t) ==
    /\ budget > 0
    /\ Call("dump", <<t>>, Self, files, Some(dump(Self, includeTimeStamp, t)))

\* every method, on a formatter used for MaxCalls calls
Next ==
    \/ \E k \in Steps : Indent(k)
    \/ \E k \in Steps : Dedent(k)
    \/ \E n \in Names : StartFeature(n)
    \/ EndFeature
    \/ \E n \in Names : StartLookup(n)
    \/ EndLookup
    \/ \E n \in Names : StartTable(n)
    \/ EndTable
    \/ \E a \in LineArgs : AddLine(a)
    \/ \E a \in CommentArgs : Comment(a)
    \/ \E a \in TitleArgs : Title(a)
    \/ \E x \in LastLineTexts : AddLastLine(x)
    \/ \E g \in {FewNames, FiveNames}, gn \in GroupNames : AddGroup(g, gn, 50, FALSE)
    \/ \E n \in {None, Some("arab")} : LanguageSystem(n, None)
    \/ LookupFlag(<<"IgnoreMarks", "RightToLeft">>)
    \/ \E f \in FileNames : Include(f)
    \/ MarkClass("acute", Some(<<130, 404>>), "@TOP")
    \/ PositionMark("acute", Some(<<129, 668>>), "@TOP")
    \/ StartLigatureMarks("f_i")
    \/ PositionBaseMark("a", Some(<<325, -377>>), "@BELOW")
    \/ \E en \in BOOLEAN : StartBaseMarks("a", en)
    \/ \E pos \in Positions, en \in BOOLEAN : AnchorBasePosition(pos, "@TOP", en)
    \/ Kern("A", "V", -80)
    \/ EndMarks
    \/ LigatureFlagComponent
    \/ \E ttl \in FileTitles, t \in Clock, w \in BOOLEAN : Save(ttl, t, w)
    \/ \E t \in Clock : Dump(t)

Spec == Init /\ [][Next]_vars

-----------------------------------------------------------------------------
(* Block structure: indentation, the three block tracks, lines and         *)
(* comments, on a formatter used for MaxBlockCalls calls.                  *)

BlockSteps == {1, 2}

InitBlocks == \E k \in StartIndents : Construct(k, TRUE, MaxBlockCalls)

NextBlocks ==
    \/ \E k \in BlockSteps : Indent(k)
    \/ \E k \in BlockSteps : Dedent(k)
    \/ \E n \in Names : StartFeature(n)
    \/ EndFeature
    \/ StartLookup("lk")
    \/ EndLookup
    \/ StartTable("GDEF")
    \/ EndTable
    \/ AddLine(<<"sub", "a", "by", "b;">>)
    \/ Comment(<<"note">>)
    \/ AddLastLine(";")

SpecBlocks == InitBlocks /\ [][NextBlocks]_vars

-----------------------------------------------------------------------------
(* Serialization: features, lines and titles, then dump and save, on a     *)
(* formatter used for MaxSaveCalls calls.                                  *)

InitSave == \E k \in StartIndents, ts \in BOOLEAN : Construct(k, ts, MaxSaveCalls)

NextSave ==
    \/ \E n \in Names : StartFeature(n)
    \/ EndFeature
    \/ AddLine(<<"sub", "a", "by", "b;">>)
    \/ Title(<<"Kerning">>)
    \/ \E ttl \in FileTitles, t \in Clock, w \in BOOLEAN : Save(ttl, t, w)
    \/ \E t \in Clock : Dump(t)

SpecSave == InitSave /\ [][NextSave]_vars

-----------------------------------------------------------------------------
(* Groups: some calls that set the scene, then one addGroup call with any  *)
(* glyph-name list of up to MaxGroupLen names.                             *)

GroupGlyphs == {"a", "bc"}
\* a list long enough for ten flushed lines
ManyNames == [i \in 1..21 |-> "a"]
GlyphLists == UNION {[1..n -> GroupGlyphs] : n \in 0..MaxGroupLen} \cup {ManyNames}
ClassNames == {None, Some(""), Some("G"), Some("@G")}
LineLengths == {0, 4, 50}

InitGroup == \E k \in StartIndents : Construct(k, TRUE, MaxGroupCalls)

SceneIndent ==
    /\ budget > 1
    /\ Indent(1)

SceneDedent ==
    /\ budget > 1
    /\ Dedent(1)

SceneComment ==
    /\ budget > 1
    /\ Comment(<<"note">>)

TheGroup ==
    /\ budget = 1
    /\ \E g \in GlyphLists, gn \in ClassNames, ll \in LineLengths, srt \in BOOLEAN :
           AddGroup(g, gn, ll, srt)

NextGroup ==
    \/ SceneIndent
    \/ SceneDedent
    \/ SceneComment
    \/ TheGroup

SpecGroup == InitGroup /\ [][NextGroup]_vars

-----------------------------------------------------------------------------
(* What the claims read: the last call, and the state before it. *)

NCalls == Len(trace)
LastCall == trace[NCalls]
Last(op) == NCalls > 0 /\ LastCall.op = op
LastLine(ls) == ls[Len(ls)]
\* the lines the last call appended
NewLines == SubSeq(lines, Len(pre.lines) + 1, Len(lines))

-----------------------------------------------------------------------------
(* C1: over any sequence of indent(steps) and dedent(steps) calls, the     *)
(* constructor's indent(startIndent) included, the indent level is never   *)
(* negative; a dedent by more steps than the level holds returns normally  *)
(* and leaves the level at exactly 0.  Steps are counts (not negative).    *)
C1_IndentNeverNegative ==
    /\ indentLevel >= 0
    /\ Last("dedent") =>
          /\ raised = ""
          /\ LastCall.args[1] > pre.indentLevel => indentLevel = 0
          /\ LastCall.args[1] <= pre.indentLevel =>
                indentLevel = pre.indentLevel - LastCall.args[1]

\* a dedent by more steps than the level held, from a level above 0
C1_Witness ==
    /\ Last("dedent")
    /\ pre.indentLevel > 0
    /\ LastCall.args[1] > pre.indentLevel
    /\ indentLevel = 0

-----------------------------------------------------------------------------
\* the startFeature and endFeature calls made before the last call
FeatureCalls == {i \in 1..(NCalls - 1) : trace[i].op \in {"startFeature", "endFeature"}}
\* the latest of them
Opener == CHOOSE i \in FeatureCalls : \A j \in FeatureCalls : j <= i
\* the last call is the endFeature of a balanced startFeature(n); body; endFeature():
\* the body calls neither startFeature nor endFeature and ends at the indent
\* level it began with
Balanced ==
    /\ Last("endFeature")
    /\ FeatureCalls /= {}
    /\ trace[Opener].op = "startFeature"
    /\ trace[Opener + 1].level0 = pre.indentLevel

(* C2: after a balanced startFeature(n); body; endFeature() the indent     *)
(* level is the one before startFeature, the line endFeature appended is   *)
(* "} n;" and it has the indent prefix of the opening line "feature n {".  *)
C2_BlockSymmetry ==
    Balanced =>
        LET n == trace[Opener].args[1]
            L == trace[Opener].level0
        IN  /\ raised = ""
            /\ indentLevel = L
            /\ Len(lines) = Len(pre.lines) + 1
            /\ LastLine(lines) = Prefix(L) \o "} " \o n \o ";"
            /\ StartsWith(lines[trace[Opener].nlines0 + 1],
                          Prefix(L) \o "feature " \o n \o " {")

\* a balanced feature with a body of at least one call, opened at a level above 0
C2_Witness ==
    /\ Balanced
    /\ NCalls - Opener > 1
    /\ trace[Opener].level0 >= 1
    /\ LastLine(lines) = Prefix(trace[Opener].level0) \o "} "
                            \o trace[Opener].args[1] \o ";"

-----------------------------------------------------------------------------
\* the path include(fileName) looks for, for the last call
IncludedPath == PathJoin(dirName, LastCall.args[1])

(* C3 as claimed: include(fileName) appends the include statement and,     *)
(* when dirName/fileName does not exist, exactly one advisory comment line *)
(* after it (two lines in all); when the path exists, the include          *)
(* statement alone.  It does not raise and keeps the indent level.         *)
C3_OneAdvisoryLine ==
    Last("include") =>
        /\ raised = ""
        /\ indentLevel = pre.indentLevel
        /\ Len(lines) = Len(pre.lines)
                          + (IF IncludedPath \in DOMAIN files THEN 1 ELSE 2)
        /\ lines[Len(pre.lines) + 1]
             = Prefix(pre.indentLevel) \o "include(" \o LastCall.args[1] \o ");"

(* C3 as amended: include(fileName) appends the include statement and,     *)
(* when dirName/fileName does not exist, two advisory comment lines after  *)
(* it, "# Note: missing file at" and "# <path>" (three lines in all); when *)
(* the path exists, the include statement alone.  It does not raise and    *)
(* keeps the indent level and every earlier line.                          *)
C3_TwoAdvisoryLines ==
    Last("include") =>
        /\ raised = ""
        /\ indentLevel = pre.indentLevel
        /\ NewLines =
             IF IncludedPath \in DOMAIN files
             THEN << Prefix(pre.indentLevel) \o "include(" \o LastCall.args[1] \o ");" >>
             ELSE << Prefix(pre.indentLevel) \o "include(" \o LastCall.args[1] \o ");",
                     Prefix(pre.indentLevel) \o "# Note: missing file at",
                     Prefix(pre.indentLevel) \o "# " \o IncludedPath >>
        /\ SubSeq(lines, 1, Len(pre.lines)) = pre.lines

\* an include of a missing file at a level above 0, after a line was written
C3_Witness ==
    /\ Last("include")
    /\ IncludedPath \notin DOMAIN files
    /\ pre.indentLevel > 0
    /\ pre.lines /= <<>>
    /\ Len(lines) = Len(pre.lines) + 3

-----------------------------------------------------------------------------
\* the call before the last one
PrevCall == trace[NCalls - 1]
\* pre.lines with text put at the end of its last line
Extended(text) == [pre.lines EXCEPT ![Len(pre.lines)] = @ \o text]

(* C4: addLastLine(x) right after comment(...) leaves the comment line as  *)
(* it is and appends x as a new line at the current indent; right after an *)
(* addLine(...) of text without the comment marker it puts x at the end of *)
(* that line, with no separator and no new line.  endMarks() dedents one   *)
(* step and then puts ";" at the end of the previous line, unless that     *)
(* line holds the comment marker: then ";" is a line of its own.           *)
C4_UnlessComment ==
    /\ ( /\ Last("addLastLine")
         /\ NCalls >= 2
         /\ PrevCall.op = "comment"
         /\ PrevCall.args /= <<>> )
       => /\ raised = ""
          /\ indentLevel = pre.indentLevel
          /\ LastLine(pre.lines)
               = Prefix(pre.indentLevel) \o "# " \o PrevCall.args[Len(PrevCall.args)]
          /\ lines = Append(pre.lines, Prefix(pre.indentLevel) \o LastCall.args[1])
    /\ ( /\ Last("addLastLine")
         /\ NCalls >= 2
         /\ PrevCall.op = "addLine"
         /\ ~Contains(Join(" ", PrevCall.args), "#") )
       => /\ raised = ""
          /\ indentLevel = pre.indentLevel
          /\ lines = Extended(LastCall.args[1])
    /\ ( /\ Last("endMarks")
         /\ pre.lines /= <<>> )
       => /\ raised = ""
          /\ indentLevel = Max(pre.indentLevel - 1, 0)
          /\ lines = IF Contains(LastLine(pre.lines), "#")
                     THEN Append(pre.lines, Prefix(indentLevel) \o ";")
                     ELSE Extended(";")

\* addLastLine right after a comment, at a level above 0
C4_Witness ==
    /\ Last("addLastLine")
    /\ NCalls >= 2
    /\ PrevCall.op = "comment"
    /\ PrevCall.args /= <<>>
    /\ pre.indentLevel > 0
    /\ Len(lines) = Len(pre.lines) + 1

-----------------------------------------------------------------------------
\* the arguments of the last call, an addGroup
GivenNames == LastCall.args[1]
GivenClass == LastCall.args[2]
\* a class name was supplied (None and "" are none)
HasClass == GivenClass /= None /\ GivenClass[1] /= ""
\* the class name without its marker
BareClass == IF StartsWith(GivenClass[1], "@")
             THEN SubSeq(GivenClass[1], 2, Len(GivenClass[1]))
             ELSE GivenClass[1]

(* C5: addGroup with fewer than 5 glyph names appends exactly one line at  *)
(* the current indent and keeps the indent level: "@G = [ n1 n2 ... ];"    *)
(* for a class name given as "G" or as "@G", "[ n1 n2 ... ]" with no       *)
(* terminator when no class name is given.  With exactly 5 names the       *)
(* multi-line form is used.  Glyph names hold no comment marker.           *)
C5_SmallGroup ==
    /\ (Last("addGroup") /\ Len(GivenNames) < 5) =>
          /\ raised = ""
          /\ indentLevel = pre.indentLevel
          /\ lines = Append(pre.lines,
                 Prefix(pre.indentLevel) \o
                 (IF HasClass
                  THEN "@" \o BareClass \o " = [ " \o Join(" ", GivenNames) \o " ];"
                  ELSE "[ " \o Join(" ", GivenNames) \o " ]"))
    /\ (Last("addGroup") /\ Len(GivenNames) = 5) =>
          /\ Len(lines) > Len(pre.lines) + 1
          /\ lines[Len(pre.lines) + 1]
               = Prefix(pre.indentLevel) \o
                 (IF HasClass THEN "@" \o BareClass \o " = [" ELSE "[")

\* a group of three names with the class name given as "@G", at a level above 0
C5_Witness ==
    /\ Last("addGroup")
    /\ Len(GivenNames) = 3
    /\ GivenClass = Some("@G")
    /\ pre.indentLevel > 0
    /\ Len(lines) = Len(pre.lines) + 1

-----------------------------------------------------------------------------
RECURSIVE Words(_, _, _)
\* text[start:].split(" "), the characters from start to i - 1 holding no space
Words(text, i, start) ==
    IF i > Len(text) THEN <<SubSeq(text, start, Len(text))>>
    ELSE IF SubSeq(text, i, i) = " "
         THEN <<SubSeq(text, start, i - 1)>> \o Words(text, i + 1, i + 1)
         ELSE Words(text, i + 1, start)

\* the lines between the first and the last line the addGroup call appended
BodyLines == SubSeq(NewLines, 2, Len(NewLines) - 1)
\* a body line without the indent of the body
BodyText(i) == SubSeq(BodyLines[i], Len(Prefix(pre.indentLevel + 1)) + 1, Len(BodyLines[i]))

RECURSIVE BodyNamesFrom(_)
\* the names on body lines i, i + 1, ..., comment lines left out
BodyNamesFrom(i) ==
    IF i > Len(BodyLines) THEN <<>>
    ELSE (IF StartsWith(BodyText(i), "#") THEN <<>> ELSE Words(BodyText(i), 1, 1))
         \o BodyNamesFrom(i + 1)

Occurrences(seq, x) == Cardinality({i \in 1..Len(seq) : seq[i] = x})
SameNames(a, b) ==
    /\ Len(a) = Len(b)
    /\ \A i \in 1..Len(a) : Occurrences(a, a[i]) = Occurrences(b, a[i])
Ascending(seq) == \A i \in 1..(Len(seq) - 1) : ~StrLess(seq[i + 1], seq[i])

(* C6: addGroup with 5 or more glyph names appends a block whose first     *)
(* line is "@G = [" (class) or "[" (free sequence), whose body holds one   *)
(* count comment "# total N names", and whose last line is "];" or "]" at  *)
(* the indent of the first line; the names on the body's non-comment       *)
(* lines, read in order, are the given names, each once, in the given      *)
(* order, or in sorted order when sort is set; the indent level after the  *)
(* call is the level before it.                                            *)
C6_LargeGroup ==
    (Last("addGroup") /\ Len(GivenNames) >= 5) =>
        /\ raised = ""
        /\ indentLevel = pre.indentLevel
        /\ SubSeq(lines, 1, Len(pre.lines)) = pre.lines
        /\ Len(NewLines) >= 3
        /\ NewLines[1] = Prefix(pre.indentLevel)
                           \o (IF HasClass THEN "@" \o BareClass \o " = [" ELSE "[")
        /\ LastLine(NewLines) = Prefix(pre.indentLevel)
                                  \o (IF HasClass THEN "];" ELSE "]")
        /\ \A i \in 1..Len(BodyLines) :
               StartsWith(BodyLines[i], Prefix(pre.indentLevel + 1))
        /\ Cardinality({i \in 1..Len(BodyLines) :
               BodyText(i) = "# total " \o IntStr(Len(GivenNames)) \o " names"}) = 1
        /\ IF LastCall.args[4]
           THEN /\ SameNames(BodyNamesFrom(1), GivenNames)
                /\ Ascending(BodyNamesFrom(1))
           ELSE BodyNamesFrom(1) = GivenNames

\* a sorted class group whose names were not in order and wrap onto several lines
C6_Witness ==
    /\ Last("addGroup")
    /\ Len(GivenNames) >= 6
    /\ HasClass
    /\ LastCall.args[4]
    /\ ~Ascending(GivenNames)
    /\ pre.indentLevel > 0
    /\ Len(NewLines) >= 6

-----------------------------------------------------------------------------
RECURSIVE StartedUpTo(_)
\* the names passed to startFeature by calls 1..n, in call order
StartedUpTo(n) ==
    IF n = 0 THEN <<>>
    ELSE StartedUpTo(n - 1)
         \o (IF trace[n].op = "startFeature" THEN <<trace[n].args[1]>> ELSE <<>>)

\* the file a save call c names: an override that is None or the empty
\* string counts as not given
TitleOf(c) ==
    IF c.args[1] /= None /\ c.args[1][1] /= "" THEN c.args[1][1]
    ELSE Join("_", StartedUpTo(NCalls))
PathOf(c) == "out/feature_AT_" \o TitleOf(c) \o ".fea"
\* the last call is a save whose open() succeeded
Saved == Last("save") /\ LastCall.args[3]
\* the last call left every field of the formatter as it was
Untouched ==
    /\ lines = pre.lines
    /\ structure = pre.structure
    /\ indentLevel = pre.indentLevel
    /\ featureNames = pre.featureNames
    /\ currentFeature = pre.currentFeature
    /\ currentLookup = pre.currentLookup
    /\ currentTableName = pre.currentTableName

(* C7: save(titleOverride) writes the text dump() returns at that moment   *)
(* to dirName/feature_<prefix>_<title>.fea and returns that path; <title>  *)
(* is the override when a (non-empty) one is given, otherwise the names    *)
(* passed to startFeature, in call order, joined by "_".  With the         *)
(* timestamp option disabled the file holds what dump() returns at any     *)
(* clock reading, and a dump() right after the save returns the file's     *)
(* text.  Neither dump nor save changes the line buffer, the structure,    *)
(* the indent level, the feature names or the current block names.         *)
C7_SaveWritesDump ==
    /\ Saved =>
          /\ raised = ""
          /\ ret = Some(PathOf(LastCall))
          /\ PathOf(LastCall) \in DOMAIN files
          /\ files[PathOf(LastCall)] = dump(Self, includeTimeStamp, LastCall.args[2])
          /\ ~includeTimeStamp =>
                \A t \in Clock : files[PathOf(LastCall)] = dump(Self, FALSE, t)
    /\ (Last("save") \/ Last("dump")) => Untouched
    /\ (Last("dump") /\ NCalls > 1 /\ PrevCall.op = "save" /\ PrevCall.args[3]
          /\ ~includeTimeStamp) =>
          ret = Some(files[PathOf(PrevCall)])

\* a save without override after two startFeature calls, timestamp disabled
C7_Witness ==
    /\ Saved
    /\ LastCall.args[1] = None
    /\ Len(featureNames) = 2
    /\ ~includeTimeStamp
    /\ ret = Some("out/feature_AT_" \o featureNames[1] \o "_" \o featureNames[2] \o ".fea")
    /\ files[ret[1]] = dump(Self, FALSE, 0)

-----------------------------------------------------------------------------
(* C8 as claimed: from a freshly constructed formatter, no call other than *)
(* save ends in a raised exception.  positionBaseMark always ends in a     *)
(* NameError (it reads the undefined name ligatureName), and addLastLine   *)
(* and endMarks on an empty line buffer end in an IndexError (lines[-1]).  *)
C8_OnlySaveRaises ==
    raised /= "" => Last("save")

-----------------------------------------------------------------------------
\* the current name of a track, in a formatter record
NameOn(track, s) ==
    CASE track = "Feature" -> s.currentFeature
      [] track = "Lookup"  -> s.currentLookup
      [] track = "Table"   -> s.currentTableName
Tracks == {"Feature", "Lookup", "Table"}
\* the closing statement of a track whose current name is nm
Closing(nm) == IF nm = None THEN "} None;" ELSE "} " \o nm[1] \o ";"

(* C9: on each of the tracks feature, lookup and table, start<Track>(n)    *)
(* makes n the current name and end<Track>() leaves no current name; an    *)
(* end call on a track that has no current name does not raise, appends    *)
(* the closing statement "} None;" and leaves the track closed; a call     *)
(* changes no track's current name but that of its own track.              *)
C9_Tracks ==
    \A tr \in Tracks :
        /\ Last("start" \o tr) =>
              /\ raised = ""
              /\ NameOn(tr, Self) = Some(LastCall.args[1])
        /\ Last("end" \o tr) =>
              /\ raised = ""
              /\ NameOn(tr, Self) = None
              /\ Len(lines) = Len(pre.lines) + 1
              /\ LastLine(lines) = Prefix(indentLevel) \o Closing(NameOn(tr, pre))
        /\ (NCalls > 0 /\ NameOn(tr, Self) /= NameOn(tr, pre)) =>
              LastCall.op \in {"start" \o tr, "end" \o tr}

\* an endLookup with no lookup started, inside an open feature
C9_Witness ==
    /\ Last("endLookup")
    /\ pre.currentLookup = None
    /\ currentFeature /= None
    /\ currentLookup = None
    /\ LastLine(lines) = Prefix(indentLevel) \o "} None;"
    /\ raised = ""

-----------------------------------------------------------------------------
RECURSIVE LeadingSpaces(_)
\* the number of spaces a text begins with
LeadingSpaces(text) ==
    IF Len(text) > 0 /\ SubSeq(text, 1, 1) = " "
    THEN 1 + LeadingSpaces(SubSeq(text, 2, Len(text)))
    ELSE 0

BlockOps == {"startFeature", "endFeature", "startLookup", "endLookup",
             "startTable", "endTable"}
\* the block operations that call addStructure
OutlinedOps == {"startFeature", "endFeature", "startLookup"}
\* the last call appended one line and one structure entry
OneEntry ==
    /\ Len(NewLines) = 1
    /\ Len(structure) = Len(pre.structure) + 1
    /\ SubSeq(structure, 1, Len(pre.structure)) = pre.structure

-----------------------------------------------------------------------------
\* sequence a is the beginning of sequence b
IsPrefix(a, b) == Len(a) <= Len(b) /\ SubSeq(b, 1, Len(a)) = a
\* the calls that may put text at the end of the last line
LastLineOps == {"addLastLine", "endMarks"}

(* C11: after every call the structure before the call is a prefix of the  *)
(* structure, the feature-name list before the call is a prefix of the     *)
(* feature-name list, and the line buffer before the call is a prefix of   *)
(* the line buffer; addLastLine and endMarks alone may instead lengthen    *)
(* the last existing line, the old last line being a prefix of the new     *)
(* one and every earlier line kept.                                        *)
C11_AppendOnly ==
    NCalls > 0 =>
        /\ IsPrefix(pre.structure, structure)
        /\ IsPrefix(pre.featureNames, featureNames)
        /\ IF LastCall.op \in LastLineOps /\ pre.lines /= <<>>
           THEN /\ Len(lines) >= Len(pre.lines)
                /\ \A i \in 1..(Len(pre.lines) - 1) : lines[i] = pre.lines[i]
                /\ StartsWith(lines[Len(pre.lines)], LastLine(pre.lines))
           ELSE IsPrefix(pre.lines, lines)

\* an addLastLine that lengthened the last of several lines
C11_Witness ==
    /\ Last("addLastLine")
    /\ Len(pre.lines) >= 2
    /\ Len(lines) = Len(pre.lines)
    /\ LastLine(lines) = LastLine(pre.lines) \o LastCall.args[1]
    /\ LastLine(lines) /= LastLine(pre.lines)
    /\ raised = ""

-----------------------------------------------------------------------------
GivenLineLength == LastCall.args[3]
\* the body lines that hold names
NameLines == {i \in 1..Len(BodyLines) : ~StartsWith(BodyText(i), "#")}
\* the n-th of them
NthNameLine(n) == CHOOSE i \in NameLines : Cardinality({j \in NameLines : j <= i}) = n
\* the lines the loop flushed: every name line but the one written after the loop
Flushed == Cardinality(NameLines) - 1
\* "# line N" follows the N-th flushed line for N = 10, 20, ..., and stands nowhere else
RunningComments ==
    /\ \A k \in 1..(Flushed \div 10) :
           BodyText(NthNameLine(10 * k) + 1) = "# line " \o IntStr(10 * k)
    /\ Cardinality({i \in 1..Len(BodyLines) : StartsWith(BodyText(i), "# line ")})
         = Flushed \div 10

(* C12 as claimed: in the multi-line form of addGroup, when every name is  *)
(* shorter than lineLength, no body line of names (indent excluded) is     *)
(* longer than lineLength, and a "# line N" comment follows every 10th     *)
(* flushed body line.  The loop tests "c > lineLength" on the names it has *)
(* already put on the line, so a line is flushed only once it is over the  *)
(* budget, and the first name of a line after a flush is not counted.      *)
C12_WrapWithinLineLength ==
    (/\ Last("addGroup")
     /\ Len(GivenNames) >= 5
     /\ \A i \in 1..Len(GivenNames) : Len(GivenNames[i]) < GivenLineLength) =>
        /\ \A i \in NameLines : Len(BodyText(i)) <= GivenLineLength
        /\ RunningComments

\* the part of C12 on the running comments alone, for any line length
RunningCommentsHold ==
    (Last("addGroup") /\ Len(GivenNames) >= 5) => RunningComments
\* a group with a "# line 10" comment
RunningCommentsSeen ==
    /\ Last("addGroup")
    /\ Flushed >= 10
    /\ \E i \in 1..Len(BodyLines) : BodyText(i) = "# line 10"

-----------------------------------------------------------------------------
(* C13 as claimed: from every reachable state ligatureFlagComponent()      *)
(* leaves the indent level as it was and appends one line, "ligComponent", *)
(* one indent step shallower than the level at the call.  At level 0 the   *)
(* dedent is clamped and the indent that follows is not: the line is at    *)
(* level 0 and the formatter is left at level 1.                           *)
C13_IndentRestored ==
    Last("ligatureFlagComponent") =>
        /\ raised = ""
        /\ indentLevel = pre.indentLevel
        /\ Len(NewLines) = 1
        /\ SubSeq(lines, 1, Len(pre.lines)) = pre.lines
        /\ LeadingSpaces(LastLine(lines)) = Len(indentSpace) * (pre.indentLevel - 1)
        /\ SubSeq(LastLine(lines), LeadingSpaces(LastLine(lines)) + 1,
                  Len(LastLine(lines))) = "ligComponent"

====
